---- MODULE Spec2Model ----
(***************************************************************************)
(* Personalization and sync engine of trivia-feed.                         *)
(*                                                                         *)
(* Weights are integers in hundredths (0.5 is 50), scores in thousandths,  *)
(* the clock counts whole days.                                            *)
(***************************************************************************)
EXTENDS Integers, Sequences, FiniteSets, TLC

VARIABLES
    user,               \* useAuth().user: NoUser or a user id
    userProfile,        \* state.trivia.userProfile (the local profile)
    initialDataLoaded,  \* useState(false) of SimplifiedSyncManager
    writeOnly,          \* the module flag behind isWriteOnlyMode()
    resetRequested,     \* markInitialDataLoadComplete.reset set by resetModuleState
    appStateRef,        \* appStateRef.current
    remote,             \* the rows of user_profile_data for the user: none or one
    loads,              \* the invocations of loadInitialData, by slot
    checking,           \* the checkDefaultWeights fetches in flight
    loadEffect,         \* the loadInitialData effect is scheduled to run
    checkEffect,        \* the checkDefaultWeights effect is scheduled to run
    fetchCount,         \* remote fetches started by loadInitialData
    readCount,          \* all reads of the remote profile issued
    pushCount,          \* all upserts of the profile issued
    events,             \* outcome events applied in this session
    lastApplied,        \* what the last applyOutcome did: none or one record
    lastOutcome,        \* per item, the outcomes recorded by its two most recent events
    now,                \* the clock, in days
    scoreLog,           \* evaluations of score made against the current profile
    mergeIn,            \* the two profiles handed to the conflict merge
    merged,             \* the results of the merge in both orders: none or one
    remoteVersion,      \* the version column of the row of the user
    currentVersion,     \* the version the sync state of the device holds
    push,               \* the push of the device: idle or in flight
    inFlight,           \* pushes of the device started and not yet finished
    triggers,           \* sync triggers fired
    coalesced,          \* triggers that found a push in flight
    reported,           \* a conflict was reported to the caller of the last push
    otherWrites,        \* writes of another device accepted by the store
    released,           \* the coordinator's cleanup has returned
    feed,               \* the ids of the items of the feed, in feed order
    appended,           \* checkpoint invocations so far
    selected            \* the candidates of the last invocation of the feed
                        \* builder, in the order of their rank

vars == <<user, userProfile, initialDataLoaded, writeOnly, resetRequested,
          appStateRef, remote, loads, checking, loadEffect, checkEffect,
          fetchCount, readCount, pushCount, events, lastApplied,
          lastOutcome, now, scoreLog, mergeIn, merged,
          remoteVersion, currentVersion, push, inFlight, triggers, coalesced,
          reported, otherWrites, released, feed, appended,
              selected>>

\* the variables of the pushes and of the feed, which the session leaves alone
pushVars == <<remoteVersion, currentVersion, push, inFlight, triggers,
              coalesced, reported, otherWrites, released, feed, appended,
              selected>>

syncVars == <<user, initialDataLoaded, writeOnly, resetRequested, appStateRef,
              remote, loads, checking, fetchCount, readCount, pushCount>>

----------------------------------------------------------------------------
(* Bounds of the model *)

MaxEvents == 4
MaxSessionEvents == 2
MaxLoads == 2
MaxChecks == 1
MaxPushes == 2
MaxDay == 6
DayStep == 3
MaxScores == 2
MaxScoreEvents == 1
MaxTriggers == 3
MaxOtherWrites == 2
MaxPushEvents == 1

(* Program constants *)

DEFAULT_TOPIC_WEIGHT == 50
MinWeight == 10
MaxWeight == 100
ColdStartThreshold == 20

----------------------------------------------------------------------------
(* Items and the topic tree *)

Items == {"q1", "q2", "q3"}

ItemPath(q) ==
    IF q \in {"q3", "q6"} THEN <<"History", "Ancient", "Rome">>
                ELSE <<"Science", "Physics", "Mechanics">>

\* the RootTopic, SubTopic and TopicBranch nodes addressed by a path
NodeAt(path, level) == SubSeq(path, 1, level)

Levels == 1..3

Outcomes == {"Correct", "Incorrect", "Skipped"}

NoUser == "none"

Min(a, b) == IF a < b THEN a ELSE b
Max(a, b) == IF a > b THEN a ELSE b
Abs(a) == IF a < 0 THEN 0 - a ELSE a

\* weight of a node, a node that does not exist yet counting as the default
WeightOf(topics, node) ==
    IF node \in DOMAIN topics THEN topics[node] ELSE DEFAULT_TOPIC_WEIGHT

----------------------------------------------------------------------------
(* Weight model *)

\* the delta table, per level <<topic, subtopic, branch>>
Delta(outcome) ==
    CASE outcome = "Correct"   -> <<10, 15, 20>>
      [] outcome = "Incorrect" -> <<5, 7, 10>>
      [] outcome = "Skipped"   -> <<-5, -7, -10>>

\* compensation for a previously skipped question that is answered later
CompensationDelta(outcome) ==
    CASE outcome = "Correct"   -> <<5, 7, 10>>
      [] outcome = "Incorrect" -> <<3, 4, 5>>

\* the previously skipped question is answered now
IsCompensation(interactions, q, outcome) ==
    /\ outcome \in {"Correct", "Incorrect"}
    /\ q \in DOMAIN interactions
    /\ interactions[q].wasSkipped

AppliedDelta(interactions, q, outcome) ==
    IF IsCompensation(interactions, q, outcome)
        THEN CompensationDelta(outcome)
        ELSE Delta(outcome)

\* a bug: the bound of the interval is not enforced
WeightCalculationUnclamped(w, d) == w + d

\* topicNode.weight = Math.min(1.0, weight + d) / Math.max(0.1, weight - d)
WeightCalculation(w, d) ==
    IF d >= 0 THEN Min(MaxWeight, w + d) ELSE Max(MinWeight, w + d)

\* a bug: the record of the item is merged into the one already there
RecordInteractionSticky(interactions, q, outcome, timeSpent, at) ==
    [x \in DOMAIN interactions \cup {q} |->
        IF x = q
            THEN [wasCorrect |-> CASE outcome = "Correct"   -> "true"
                                   [] outcome = "Incorrect" -> "false"
                                   [] outcome = "Skipped"   -> "null",
                  wasSkipped |-> \/ outcome = "Skipped"
                                 \/ (q \in DOMAIN interactions
                                        /\ interactions[q].wasSkipped),
                  timeSpent |-> timeSpent,
                  viewedAt |-> at]
            ELSE interactions[x]]

\* upsert of the Interaction of the item: one record per item id
RecordInteraction(interactions, q, outcome, timeSpent, at) ==
    [x \in DOMAIN interactions \cup {q} |->
        IF x = q
            THEN [wasCorrect |-> CASE outcome = "Correct"   -> "true"
                                   [] outcome = "Incorrect" -> "false"
                                   [] outcome = "Skipped"   -> "null",
                  wasSkipped |-> outcome = "Skipped",
                  timeSpent |-> timeSpent,
                  viewedAt |-> at]
            ELSE interactions[x]]

\* a topic weight that is not the default in a profile with at most one
\* interaction is put back to the default
ConsistencyCheck(w, interactions) ==
    IF Cardinality(DOMAIN interactions) <= 1 /\ Abs(w - DEFAULT_TOPIC_WEIGHT) > 1
        THEN DEFAULT_TOPIC_WEIGHT
        ELSE w

\* the weight of a node of the path before the deltas are applied
OldWeight(topics, interactions, path, level) ==
    IF level = 1
        THEN ConsistencyCheck(WeightOf(topics, NodeAt(path, 1)), interactions)
        ELSE WeightOf(topics, NodeAt(path, level))

\* a bug: a skip counts as an answer
TotalAfterCountsSkips(total, outcome) == total + 1

\* totalAnswered after the event: only answers count
TotalAfter(total, outcome) ==
    IF outcome = "Skipped" THEN total ELSE total + 1

\* a bug: every node of the level of an addressed node is taken for it
IsAddressedByLevel(n, path) == Len(n) \in Levels

\* n is the topic, the subtopic or the branch of the path
IsAddressed(n, path) == n = NodeAt(path, Len(n))

\* the profile after one outcome event on item q
UpdateUserProfile(p, q, outcome, timeSpent, at) ==
    LET path == ItemPath(q)
        d == AppliedDelta(p.interactions, q, outcome)
        inter == RecordInteraction(p.interactions, q, outcome, timeSpent, at)
        nodes == {NodeAt(path, l) : l \in Levels}
        total == TotalAfter(p.totalAnswered, outcome)
    IN  [topics |->
            [n \in DOMAIN p.topics \cup nodes |->
                IF IsAddressed(n, path)
                    THEN WeightCalculation(
                            OldWeight(p.topics, inter, path, Len(n)), d[Len(n)])
                    ELSE p.topics[n]],
         interactions |-> inter,
         lastRefreshed |-> p.lastRefreshed,
         totalAnswered |-> total,
         coldStartComplete |-> p.coldStartComplete \/ total >= ColdStartThreshold]

\* cold-start phase of a profile
Phase(total) ==
    IF total < 5 THEN 1
    ELSE IF total < 12 THEN 2
    ELSE IF total < ColdStartThreshold THEN 3
    ELSE 4

----------------------------------------------------------------------------
(* Profiles *)

EmptyMap == [x \in {} |-> 0]

TopicsAt(path, w) == [n \in {NodeAt(path, l) : l \in Levels} |-> w[Len(n)]]

Interaction(wasCorrect, wasSkipped, timeSpent, at) ==
    [wasCorrect |-> wasCorrect, wasSkipped |-> wasSkipped,
     timeSpent |-> timeSpent, viewedAt |-> at]

MkProfile(topics, interactions, refreshed, total) ==
    [topics |-> topics,
     interactions |-> interactions,
     lastRefreshed |-> refreshed,
     totalAnswered |-> total,
     coldStartComplete |-> total >= ColdStartThreshold]

\* the profile created on first login: all-default weights, no interactions
FreshProfile == MkProfile(EmptyMap, EmptyMap, 2, 0)

\* a profile kept on the device from an earlier session: one question was
\* answered incorrectly, `total' questions were answered in all
WarmProfile(total) ==
    MkProfile(TopicsAt(ItemPath("q1"), <<55, 57, 60>>),
              [q \in {"q1"} |-> Interaction("false", FALSE, 8000, 0)],
              2, total)

\* a profile kept on the device whose Science weights went down with skips
ColdProfile ==
    MkProfile(TopicsAt(ItemPath("q1"), <<15, 10, 10>>),
              [q \in {"q1", "q2"} |-> Interaction("null", TRUE, 8000, 0)],
              2, 4)

PersistedTotals == {4, 11, 19, 20}

PersistedProfiles ==
    {FreshProfile, ColdProfile} \cup {WarmProfile(t) : t \in PersistedTotals}

\* the rows another device may have written for the user
RemoteProfile(kind, stamp) ==
    CASE kind = "default" -> MkProfile(EmptyMap, EmptyMap, stamp, 0)
      [] kind = "sci90" ->
            MkProfile(TopicsAt(ItemPath("q1"), <<90, 100, 100>>),
                      [q \in {"q1"} |-> Interaction("true", FALSE, 2000, 1)],
                      stamp, 25)
      [] kind = "sci60" ->
            MkProfile(TopicsAt(ItemPath("q1"), <<60, 65, 70>>),
                      [q \in {"q1"} |-> Interaction("true", FALSE, 8000, 2)],
                      stamp, 1)

RemoteProfiles ==
    {RemoteProfile("default", 1), RemoteProfile("default", 3),
     RemoteProfile("sci90", 1), RemoteProfile("sci90", 2),
     RemoteProfile("sci60", 3)}

\* the profiles the device may hold when a session starts
SessionProfiles == {FreshProfile, WarmProfile(11), WarmProfile(19)}

\* the items of the feed of a session
SessionItems == {"q1", "q2"}

\* every topic, subtopic and branch weight of the profile is the default
HasAllDefaultWeights(p) ==
    \A n \in DOMAIN p.topics : p.topics[n] = DEFAULT_TOPIC_WEIGHT

\* the outcome recorded for each item of a profile
RecordedOutcomes(p) ==
    [q \in Items |->
        <<"none",
          IF q \notin DOMAIN p.interactions THEN "none"
          ELSE IF p.interactions[q].wasSkipped THEN "Skipped"
          ELSE IF p.interactions[q].wasCorrect = "true" THEN "Correct"
          ELSE "Incorrect">>]

----------------------------------------------------------------------------
(* Outcome events *)

\* the time spent on a question, in milliseconds
TimeSpentValues == {2000, 8000, 20000}

\* answerQuestion / skipQuestion: the reducer stores the updated profile
ApplyOutcome(q, outcome, timeSpent) ==
    /\ events < MaxEvents
    /\ userProfile' = UpdateUserProfile(userProfile, q, outcome, timeSpent, now)
    /\ lastApplied' =
          {[item |-> q,
            outcome |-> outcome,
            previous |-> lastOutcome[q][2],
            earlier |-> lastOutcome[q][1],
            delta |-> AppliedDelta(userProfile.interactions, q, outcome),
            before |-> [l \in Levels |->
                          WeightOf(userProfile.topics, NodeAt(ItemPath(q), l))],
            base |-> [l \in Levels |->
                          OldWeight(userProfile.topics,
                                    userProfile'.interactions, ItemPath(q), l)],
            totalBefore |-> userProfile.totalAnswered]}
    /\ lastOutcome' = [lastOutcome EXCEPT ![q] = <<lastOutcome[q][2], outcome>>]
    /\ events' = events + 1
    /\ loadEffect' = TRUE
    /\ checkEffect' = TRUE
    /\ scoreLog' = {}
    /\ UNCHANGED <<syncVars, now, mergeIn, pushVars, merged>>

----------------------------------------------------------------------------
(* Sync coordinator: SimplifiedSyncManager *)

Users == {"u1"}

\* the user ids of a device that two people use in turn
AllUsers == {"u1", "u2"}

\* the user whose row of user_profile_data the variable remote holds
TrackedUser == "u1"

\* no push of the device is in flight
IdlePush(result) ==
    [pc |-> "idle", kind |-> "none", payload |-> {}, version |-> 0,
     latest |-> 0, attempts |-> 0, result |-> result]

\* the store and the device before the first trigger: the row has the
\* version the column defaults to, and the device knows it
NoPushes ==
    /\ remoteVersion = 1
    /\ currentVersion = 1
    /\ push = IdlePush("none")
    /\ inFlight = 0
    /\ triggers = 0
    /\ coalesced = 0
    /\ reported = FALSE
    /\ otherWrites = 0
    /\ released = FALSE
    /\ feed = <<>>
    /\ appended = 0
    /\ selected = <<>>

LoadSlots == 1..MaxLoads
AppStates == {"active", "background", "inactive"}

IdleLoad ==
    [pc |-> "idle", uid |-> NoUser, snap |-> {}, fetched |-> {}, pushed |-> 0]

\* the profile a dispatch of loadUserDataSuccess puts in the store
LoadUserDataSuccess(profile) ==
    /\ userProfile' = profile
    /\ lastOutcome' = RecordedOutcomes(profile)
    /\ scoreLog' = {}
    /\ loadEffect' = TRUE
    /\ checkEffect' = TRUE

\* the user of useAuth() becomes known; the effects that depend on it run
Login(u) ==
    /\ user = NoUser
    /\ user' = u
    /\ loadEffect' = TRUE
    /\ checkEffect' = TRUE
    /\ UNCHANGED <<userProfile, initialDataLoaded, writeOnly, resetRequested,
                   appStateRef, remote, loads, checking, fetchCount, readCount,
                   pushCount, events, lastApplied, lastOutcome,
                   now, scoreLog, mergeIn, pushVars, merged>>

\* the effect runs and loadInitialData returns at its guard
LoadInitialDataSkip ==
    /\ loadEffect
    /\ user = NoUser \/ initialDataLoaded
    /\ loadEffect' = FALSE
    /\ UNCHANGED <<user, userProfile, initialDataLoaded, writeOnly,
                   resetRequested, appStateRef, remote, loads, checking,
                   checkEffect, fetchCount, readCount, pushCount,
                   events, lastApplied, lastOutcome, now, scoreLog, mergeIn, pushVars,
                   merged>>

\* the effect runs: loadInitialData captures userProfile and awaits loadUserData
LoadInitialDataStart(i) ==
    /\ loadEffect
    /\ user # NoUser
    /\ ~initialDataLoaded
    /\ loads[i].pc = "idle"
    /\ \A j \in LoadSlots : j < i => loads[j].pc # "idle"
    /\ loadEffect' = FALSE
    /\ resetRequested' = TRUE
    /\ loads' = [loads EXCEPT ![i] = [pc |-> "fetching", uid |-> user,
                                      snap |-> {userProfile},
                                      fetched |-> {}, pushed |-> 0]]
    /\ fetchCount' = fetchCount + 1
    /\ readCount' = readCount + 1
    /\ UNCHANGED <<user, userProfile, initialDataLoaded, writeOnly, appStateRef,
                   remote, checking, checkEffect, pushCount, events,
                   lastApplied, lastOutcome, now, scoreLog, mergeIn, pushVars, merged>>

\* what loadUserData hands back: the row of the user id it is asked for,
\* nothing when there is none (another user has none), and nothing
\* (forceResult stays undefined) when the access throws
FetchResults == {"answered", "failed"}
Fetched(uid, result) ==
    IF result = "answered" /\ uid = TrackedUser THEN remote ELSE {}

\* the rows after an upsert of a profile under a user id
Upserted(uid, profile) == IF uid = TrackedUser THEN {profile} ELSE remote

\* the branch of loadInitialData that takes the remote profile
AdoptsRemote(local, fetched) ==
    \E r \in fetched :
        \/ r.lastRefreshed > local.lastRefreshed
        \/ HasAllDefaultWeights(local) /\ ~HasAllDefaultWeights(r)

\* profileToCheck = remoteProfile || userProfile
ProfileToCheck(fetched, local) ==
    IF fetched # {} THEN CHOOSE r \in fetched : TRUE ELSE local

\* the loadUserData of slot i returns and the remote profile is adopted
LoadAdoptRemote(i, result) ==
    /\ loads[i].pc = "fetching"
    /\ \E local \in loads[i].snap, r \in Fetched(loads[i].uid, result) :
        /\ AdoptsRemote(local, {r})
        /\ LoadUserDataSuccess(r)
        /\ initialDataLoaded' = TRUE
        /\ writeOnly' =
              (writeOnly \/ ~HasAllDefaultWeights(ProfileToCheck({r}, local)))
        /\ loads' = [loads EXCEPT ![i] = [pc |-> "done", uid |-> loads[i].uid,
                                          snap |-> {}, fetched |-> {},
                                          pushed |-> 0]]
    /\ UNCHANGED <<user, resetRequested, appStateRef, remote, checking,
                   fetchCount, readCount, pushCount, events,
                   lastApplied, now, mergeIn, pushVars, merged>>

\* the loadUserData of slot i returns and the local profile is kept:
\* loadInitialData awaits syncUserProfile(user.id, userProfile)
LoadKeepLocal(i, result) ==
    /\ loads[i].pc = "fetching"
    /\ \E local \in loads[i].snap :
        /\ ~AdoptsRemote(local, Fetched(loads[i].uid, result))
        /\ loads' = [loads EXCEPT ![i] = [pc |-> "syncing", uid |-> loads[i].uid,
                                          snap |-> {local},
                                          fetched |-> Fetched(loads[i].uid, result),
                                          pushed |-> 1]]
    /\ pushCount' = pushCount + 1
    /\ UNCHANGED <<user, userProfile, initialDataLoaded, writeOnly,
                   resetRequested, appStateRef, remote, checking, loadEffect,
                   checkEffect, fetchCount, readCount, events,
                   lastApplied, lastOutcome, now, scoreLog, mergeIn, pushVars, merged>>

\* the upsert of slot i is done: the captured profile is stored again and the
\* load completes
LoadSynced(i) ==
    /\ loads[i].pc = "syncing"
    /\ \E local \in loads[i].snap :
        /\ remote' = Upserted(loads[i].uid, local)
        /\ LoadUserDataSuccess(local)
        /\ initialDataLoaded' = TRUE
        /\ writeOnly' =
              (writeOnly
                 \/ ~HasAllDefaultWeights(ProfileToCheck(loads[i].fetched, local)))
    /\ loads' = [loads EXCEPT ![i] = [pc |-> "done", uid |-> loads[i].uid,
                                      snap |-> {}, fetched |-> {},
                                      pushed |-> 1]]
    /\ UNCHANGED <<user, resetRequested, appStateRef, checking, fetchCount,
                   readCount, pushCount, events, lastApplied, now,
                   mergeIn, pushVars, merged>>

\* a bug: the failure of the sync puts the profile back to the fresh one
SyncFailedResets(profile) == FreshProfile

\* the syncFailed reducer records the failure and keeps the profile
SyncFailed(profile) == profile

\* the upsert of slot i throws: the catch dispatches syncFailed
LoadSyncFailed(i) ==
    /\ loads[i].pc = "syncing"
    /\ loads' = [loads EXCEPT ![i] = [pc |-> "failed", uid |-> loads[i].uid,
                                      snap |-> {}, fetched |-> {},
                                      pushed |-> 1]]
    /\ userProfile' = SyncFailed(userProfile)
    /\ UNCHANGED <<user, initialDataLoaded, writeOnly,
                   resetRequested, appStateRef, remote, checking, loadEffect,
                   checkEffect, fetchCount, readCount, pushCount,
                   events, lastApplied, lastOutcome, now, scoreLog, mergeIn, pushVars,
                   merged>>

\* the effect runs before the initial load is done: nothing is checked;
\* or checkDefaultWeights returns at once because no user is logged in
CheckEffectSkip ==
    /\ checkEffect
    /\ ~initialDataLoaded \/ user = NoUser
    /\ checkEffect' = FALSE
    /\ UNCHANGED <<user, userProfile, initialDataLoaded, writeOnly,
                   resetRequested, appStateRef, remote, loads, checking,
                   loadEffect, fetchCount, readCount, pushCount,
                   events, lastApplied, lastOutcome, now, scoreLog, mergeIn, pushVars,
                   merged>>

\* checkDefaultWeights with all-default local weights: the database is asked
CheckDefaultWeightsFetch ==
    /\ checkEffect
    /\ initialDataLoaded
    /\ user # NoUser
    /\ HasAllDefaultWeights(userProfile)
    /\ checking < MaxChecks
    /\ checkEffect' = FALSE
    /\ checking' = checking + 1
    /\ readCount' = readCount + 1
    /\ UNCHANGED <<user, userProfile, initialDataLoaded, writeOnly,
                   resetRequested, appStateRef, remote, loads, loadEffect,
                   fetchCount, pushCount, events, lastApplied,
                   lastOutcome, now, scoreLog, mergeIn, pushVars, merged>>

\* checkDefaultWeights with non-default local weights: write-only mode
CheckDefaultWeightsMark ==
    /\ checkEffect
    /\ initialDataLoaded
    /\ user # NoUser
    /\ ~HasAllDefaultWeights(userProfile)
    /\ checkEffect' = FALSE
    /\ writeOnly' = TRUE
    /\ UNCHANGED <<user, userProfile, initialDataLoaded, resetRequested,
                   appStateRef, remote, loads, checking, loadEffect, fetchCount,
                   readCount, pushCount, events, lastApplied,
                   lastOutcome, now, scoreLog, mergeIn, pushVars, merged>>

\* fetchProfileWithDefaultCheck returns a profile with non-default weights
CheckAdoptRemote ==
    /\ checking > 0
    /\ \E r \in remote :
        /\ ~HasAllDefaultWeights(r)
        /\ LoadUserDataSuccess(r)
    /\ writeOnly' = TRUE
    /\ checking' = checking - 1
    /\ UNCHANGED <<user, initialDataLoaded, resetRequested, appStateRef, remote,
                   loads, fetchCount, readCount, pushCount, events,
                   lastApplied, now, mergeIn, pushVars, merged>>

\* fetchProfileWithDefaultCheck returns nothing or all-default weights, or throws
CheckKeepDefaults(result) ==
    /\ checking > 0
    /\ \A r \in Fetched(user, result) : HasAllDefaultWeights(r)
    /\ checking' = checking - 1
    /\ UNCHANGED <<user, userProfile, initialDataLoaded, writeOnly,
                   resetRequested, appStateRef, remote, loads, loadEffect,
                   checkEffect, fetchCount, readCount, pushCount,
                   events, lastApplied, lastOutcome, now, scoreLog, mergeIn, pushVars,
                   merged>>

\* a bug: the handler does not look at the user
HasUserAlways(u) == TRUE

\* user && user.id
HasUser(u) == u # NoUser

\* a bug: the state the app comes from is not looked at
LeavesActiveFromAny(current, next) == next \in {"background", "inactive"}

\* appStateRef.current === 'active' && (next is 'background' or 'inactive')
LeavesActive(current, next) ==
    current = "active" /\ next \in {"background", "inactive"}

\* handleAppStateChange: leaving the active state with a user writes the profile
HandleAppStateChange(nextAppState) ==
    /\ nextAppState # appStateRef
    /\ IF /\ HasUser(user)
          /\ LeavesActive(appStateRef, nextAppState)
        THEN /\ pushCount < MaxPushes
             /\ pushCount' = pushCount + 1
             /\ remote' = Upserted(user, userProfile)
        ELSE UNCHANGED <<pushCount, remote>>
    /\ appStateRef' = nextAppState
    /\ UNCHANGED <<user, userProfile, initialDataLoaded, writeOnly,
                   resetRequested, loads, checking, loadEffect, checkEffect,
                   fetchCount, readCount, events, lastApplied,
                   lastOutcome, now, scoreLog, mergeIn, pushVars, merged>>

\* an answer or a skip of the user during the session
SessionEvent(q, outcome) ==
    /\ events < MaxSessionEvents
    /\ ApplyOutcome(q, outcome, 8000)

----------------------------------------------------------------------------
(* The session *)

Init ==
    /\ user = NoUser
    /\ userProfile \in SessionProfiles
    /\ initialDataLoaded = FALSE
    /\ writeOnly = FALSE
    /\ resetRequested = TRUE
    /\ appStateRef = "active"
    /\ remote \in {{}} \cup {{r} : r \in RemoteProfiles}
    /\ loads = [i \in LoadSlots |-> IdleLoad]
    /\ checking = 0
    /\ loadEffect = FALSE
    /\ checkEffect = FALSE
    /\ fetchCount = 0
    /\ readCount = 0
    /\ pushCount = 0
    /\ events = 0
    /\ lastApplied = {}
    /\ lastOutcome = RecordedOutcomes(userProfile)
    /\ now = 0
    /\ scoreLog = {}
    /\ mergeIn = {}
    /\ merged = {}
    /\ NoPushes

Next ==
    \/ \E u \in Users : Login(u)
    \/ \E q \in SessionItems, o \in Outcomes : SessionEvent(q, o)
    \/ LoadInitialDataSkip
    \/ \E i \in LoadSlots : LoadInitialDataStart(i)
    \/ \E i \in LoadSlots, res \in FetchResults : LoadAdoptRemote(i, res)
    \/ \E i \in LoadSlots, res \in FetchResults : LoadKeepLocal(i, res)
    \/ \E i \in LoadSlots : LoadSynced(i)
    \/ \E i \in LoadSlots : LoadSyncFailed(i)
    \/ CheckEffectSkip
    \/ CheckDefaultWeightsFetch
    \/ CheckDefaultWeightsMark
    \/ CheckAdoptRemote
    \/ \E res \in FetchResults : CheckKeepDefaults(res)
    \/ \E s \in AppStates : HandleAppStateChange(s)

Spec == Init /\ [][Next]_vars

----------------------------------------------------------------------------
(* The weight model alone: any sequence of outcome events on any items *)

InitWeights ==
    /\ user = NoUser
    /\ userProfile \in PersistedProfiles
    /\ initialDataLoaded = FALSE
    /\ writeOnly = FALSE
    /\ resetRequested = TRUE
    /\ appStateRef = "active"
    /\ remote = {}
    /\ loads = [i \in LoadSlots |-> IdleLoad]
    /\ checking = 0
    /\ loadEffect = FALSE
    /\ checkEffect = FALSE
    /\ fetchCount = 0
    /\ readCount = 0
    /\ pushCount = 0
    /\ events = 0
    /\ lastApplied = {}
    /\ lastOutcome = RecordedOutcomes(userProfile)
    /\ now = 0
    /\ scoreLog = {}
    /\ mergeIn = {}
    /\ merged = {}
    /\ NoPushes

NextWeights ==
    \E q \in Items, o \in Outcomes : ApplyOutcome(q, o, 8000)

SpecWeights == InitWeights /\ [][NextWeights]_vars

\* the nodes of the topic tree the last event addressed, with their level
Addressed(a) == {<<NodeAt(ItemPath(a.item), l), l>> : l \in Levels}

\* C1: after any sequence of applyOutcome calls every topic, subtopic and
\* branch weight stored in the profile lies in [0.1, 1.0].
WeightsInRange ==
    \A n \in DOMAIN userProfile.topics :
        userProfile.topics[n] >= 10 /\ userProfile.topics[n] <= 100

\* an event whose delta would have left the interval at the top was applied
ClampedAtTop ==
    \E a \in lastApplied : \E nl \in Addressed(a) :
        /\ a.base[nl[2]] + a.delta[nl[2]] > 100
        /\ userProfile.topics[nl[1]] = 100

\* the delta table as the specification states it
NormalTable(outcome) ==
    IF outcome = "Correct" THEN <<10, 15, 20>>
    ELSE IF outcome = "Incorrect" THEN <<5, 7, 10>>
    ELSE <<-5, -7, -10>>

CompensationTable(outcome) ==
    IF outcome = "Correct" THEN <<5, 7, 10>> ELSE <<3, 4, 5>>

InInterval(w) == IF w > 100 THEN 100 ELSE IF w < 10 THEN 10 ELSE w

\* C2: the compensation delta is applied exactly when the outcome recorded
\* immediately before for that item was a skip and the new outcome is an
\* answer; in Skipped, Correct, Correct the second Correct applies the normal
\* delta.
CompensationOnlyAfterSkip ==
    \A a \in lastApplied : \A nl \in Addressed(a) :
        userProfile.topics[nl[1]] =
            InInterval(a.base[nl[2]] +
                (IF a.previous = "Skipped" /\ a.outcome # "Skipped"
                    THEN CompensationTable(a.outcome)[nl[2]]
                    ELSE NormalTable(a.outcome)[nl[2]]))

\* the second Correct of Skipped, Correct, Correct on one item was applied
SecondCorrectAfterSkip ==
    \E a \in lastApplied :
        /\ a.outcome = "Correct"
        /\ a.previous = "Correct"
        /\ a.earlier = "Skipped"
        /\ a.delta = <<10, 15, 20>>

----------------------------------------------------------------------------
(* The sync coordinator: properties of a session *)

\* C3: coldStartComplete never reverts to false: if it was true before a
\* step it is true after it.
ColdStartNeverReverts ==
    [][userProfile.coldStartComplete => userProfile'.coldStartComplete]_vars

\* C4: the cold-start phase derived from totalAnswered never decreases.
PhaseNeverDecreases ==
    [][Phase(userProfile'.totalAnswered) >= Phase(userProfile.totalAnswered)]_vars

\* the load of slot i takes its decision in this step
Decides(i) == loads[i].pc = "fetching" /\ loads'[i].pc # "fetching"

\* the load of slot i completes in this step
Completes(i) == loads[i].pc # "done" /\ loads'[i].pc = "done"

\* the remote profile InitialLoad has to adopt, given the local profile and
\* the remote store: none or one
ToAdopt(local, rows) ==
    {r \in rows : \/ r.lastRefreshed > local.lastRefreshed
                  \/ HasAllDefaultWeights(local) /\ ~HasAllDefaultWeights(r)}

\* what the loadUserData of slot i handed back in this step
Got(i) == IF loads'[i].pc = "syncing" THEN loads'[i].fetched ELSE remote

\* C7: InitialLoad adopts the remote profile when it exists and is newer, or
\* when local is all-default and remote is not; otherwise local is kept and
\* exactly one push is issued; no adoption and no push in any other case.
InitialLoadDecision ==
    [][\A i \in LoadSlots :
          /\ Decides(i) =>
                IF ToAdopt(userProfile, Got(i)) # {}
                    THEN /\ userProfile' \in ToAdopt(userProfile, Got(i))
                         /\ pushCount' = pushCount
                    ELSE /\ userProfile' = userProfile
                         /\ pushCount' = pushCount + 1
          /\ (loads[i].pc = "syncing" /\ Completes(i)) =>
                /\ userProfile' = userProfile
                /\ pushCount' = pushCount]_vars

\* C8: at most one remote fetch of InitialLoad is ever started in a session.
SingleInitialFetch == fetchCount <= 1

\* C9: when InitialLoad completes the mode is the one of the resulting local
\* profile: ReadEnabled iff all its weights are the default, else WriteOnly.
ModeFromResultingProfile ==
    [][\A i \in LoadSlots :
          Completes(i) => (writeOnly' <=> ~HasAllDefaultWeights(userProfile'))]_vars

\* C10: once the coordinator is in WriteOnly no read of the remote profile is
\* issued.
NoReadInWriteOnly == [][writeOnly => readCount' = readCount]_vars

----------------------------------------------------------------------------
(* Conflict resolver: the merge of the local profile with the latest row *)

\* a bug: the local weight is kept where both sides have the node
MergeTopicsLocalFirst(local, latest) ==
    [n \in DOMAIN local \cup DOMAIN latest |->
        IF n \in DOMAIN local THEN local[n] ELSE latest[n]]

\* mergeTopics: the nodes of both sides, the higher weight where both have one
MergeTopics(local, latest) ==
    [n \in DOMAIN local \cup DOMAIN latest |->
        IF n \notin DOMAIN latest THEN local[n]
        ELSE IF n \notin DOMAIN local THEN latest[n]
        ELSE Max(local[n], latest[n])]

\* {...latestData.interactions, ...userProfile.interactions}
MergeInteractions(local, latest) ==
    [q \in DOMAIN latest \cup DOMAIN local |->
        IF q \in DOMAIN local THEN local[q] ELSE latest[q]]

\* the row the resolver writes after a version conflict
MergeProfiles(local, latest, at) ==
    [topics |-> MergeTopics(local.topics, latest.topics),
     interactions |-> MergeInteractions(local.interactions, latest.interactions),
     lastRefreshed |-> at,
     totalAnswered |-> Max(local.totalAnswered, latest.totalAnswered),
     coldStartComplete |-> latest.coldStartComplete]

\* a profile with weights in two topics
MixedProfile ==
    MkProfile([n \in {NodeAt(ItemPath(q), l) : q \in {"q1", "q3"}, l \in Levels} |->
                  IF n[1] = "History" THEN 70 ELSE 50 + Len(n)],
              [q \in {"q3"} |-> Interaction("true", FALSE, 2000, 1)],
              1, 3)

MergeInputs == PersistedProfiles \cup RemoteProfiles \cup {MixedProfile}

InitMerge ==
    /\ user = NoUser
    /\ userProfile = FreshProfile
    /\ initialDataLoaded = FALSE
    /\ writeOnly = FALSE
    /\ resetRequested = TRUE
    /\ appStateRef = "active"
    /\ remote = {}
    /\ loads = [i \in LoadSlots |-> IdleLoad]
    /\ checking = 0
    /\ loadEffect = FALSE
    /\ checkEffect = FALSE
    /\ fetchCount = 0
    /\ readCount = 0
    /\ pushCount = 0
    /\ events = 0
    /\ lastApplied = {}
    /\ lastOutcome = RecordedOutcomes(userProfile)
    /\ now \in {0, DayStep}
    /\ scoreLog = {}
    /\ mergeIn \in {{[a |-> x, b |-> y]} : x \in MergeInputs, y \in MergeInputs}
    /\ merged = {}
    /\ NoPushes

\* the merge is applied to the pair, in both orders and to a with itself
ApplyMerge ==
    /\ merged = {}
    /\ merged' = {[ab |-> MergeProfiles(m.a, m.b, now),
                   ba |-> MergeProfiles(m.b, m.a, now),
                   aa |-> MergeProfiles(m.a, m.a, now)] : m \in mergeIn}
    /\ UNCHANGED <<user, userProfile, initialDataLoaded, writeOnly,
                   resetRequested, appStateRef, remote, loads, checking,
                   loadEffect, checkEffect, fetchCount, readCount, pushCount,
                   events, lastApplied, lastOutcome, now, scoreLog, mergeIn, pushVars>>

SpecMerge == InitMerge /\ [][ApplyMerge]_vars

\* C5: merge(A, A) equals A, and merge(A, B) and merge(B, A) have the same
\* weight at every leaf and the same interaction record for every item id.
MergeIdempotentCommutative ==
    \A m \in mergeIn, r \in merged :
        /\ r.aa.topics = m.a.topics
        /\ r.aa.interactions = m.a.interactions
        /\ r.ab.topics = r.ba.topics
        /\ r.ab.interactions = r.ba.interactions

----------------------------------------------------------------------------
(* Scoring engine *)

\* a bug: a missing node counts as 0
WeightOrZero(topics, node) ==
    IF node \in DOMAIN topics THEN topics[node] ELSE 0

\* weight || 0.5: a missing node and a weight of 0 count as the default
WeightOrDefault(topics, node) ==
    IF node \in DOMAIN topics /\ topics[node] # 0
        THEN topics[node]
        ELSE DEFAULT_TOPIC_WEIGHT

\* topicAffinity * 0.3, in thousandths: (t + s + b) / 3 / 100 * 0.3 * 1000
TopicAffinityTerm(topics, path) ==
    WeightOrDefault(topics, NodeAt(path, 1))
        + WeightOrDefault(topics, NodeAt(path, 2))
        + WeightOrDefault(topics, NodeAt(path, 3))

\* a bug: the bonus is not capped
CooldownBonusUncapped(days) == 100 * days

\* Math.min(daysSinceLastView * 0.1, 0.5)
CooldownBonus(days) == Min(100 * days, 500)

\* the components of the score that come from the previous interaction
InteractionTerm(interaction, at) ==
    (IF interaction.wasCorrect = "true" THEN 250 ELSE 0 - 250)
    + (IF interaction.timeSpent < 3000 THEN 150
       ELSE IF interaction.timeSpent > 15000 THEN 0 - 150 ELSE 0)
    + (IF interaction.wasSkipped THEN 0 - 200 ELSE 0)
    + CooldownBonus(at - interaction.viewedAt)

\* calculateQuestionScore, evaluated when the clock shows `at'
CalculateQuestionScore(q, p, at) ==
    TopicAffinityTerm(p.topics, ItemPath(q))
        + (IF q \in DOMAIN p.interactions
              THEN InteractionTerm(p.interactions[q], at)
              ELSE 150)

\* a question of the feed is scored against the current profile
ScoreQuestion(q) ==
    /\ Cardinality(scoreLog) < MaxScores
    /\ scoreLog' = scoreLog \cup
          {[item |-> q, at |-> now,
            score |-> CalculateQuestionScore(q, userProfile, now)]}
    /\ UNCHANGED <<user, userProfile, initialDataLoaded, writeOnly,
                   resetRequested, appStateRef, remote, loads, checking,
                   loadEffect, checkEffect, fetchCount, readCount, pushCount,
                   events, lastApplied, lastOutcome, now, mergeIn, pushVars, merged>>

\* time passes
Tick ==
    /\ now + DayStep <= MaxDay
    /\ now' = now + DayStep
    /\ UNCHANGED <<user, userProfile, initialDataLoaded, writeOnly,
                   resetRequested, appStateRef, remote, loads, checking,
                   loadEffect, checkEffect, fetchCount, readCount, pushCount,
                   events, lastApplied, lastOutcome, scoreLog, mergeIn, pushVars, merged>>

\* an answer or a skip of the user, with the time it took
ScoredEvent(q, outcome, timeSpent) ==
    /\ events < MaxScoreEvents
    /\ ApplyOutcome(q, outcome, timeSpent)

InitScore ==
    /\ user = NoUser
    /\ userProfile \in {FreshProfile, WarmProfile(20)}
    /\ initialDataLoaded = FALSE
    /\ writeOnly = FALSE
    /\ resetRequested = TRUE
    /\ appStateRef = "active"
    /\ remote = {}
    /\ loads = [i \in LoadSlots |-> IdleLoad]
    /\ checking = 0
    /\ loadEffect = FALSE
    /\ checkEffect = FALSE
    /\ fetchCount = 0
    /\ readCount = 0
    /\ pushCount = 0
    /\ events = 0
    /\ lastApplied = {}
    /\ lastOutcome = RecordedOutcomes(userProfile)
    /\ now = 0
    /\ scoreLog = {}
    /\ mergeIn = {}
    /\ merged = {}
    /\ NoPushes

NextScore ==
    \/ \E q \in Items, o \in Outcomes, t \in TimeSpentValues : ScoredEvent(q, o, t)
    \/ \E q \in Items : ScoreQuestion(q)
    \/ Tick

SpecScore == InitScore /\ [][NextScore]_vars

\* C6 as stated: two evaluations with identical item and identical profile
\* return the identical score, whatever the moment of each evaluation.
ScoreIsPure ==
    \A e1, e2 \in scoreLog : e1.item = e2.item => e1.score = e2.score

\* the cooldown bonus in an evaluation, by the specification's formula
CooldownIn(e) ==
    IF e.item \in DOMAIN userProfile.interactions
        THEN LET days == e.at - userProfile.interactions[e.item].viewedAt
             IN  IF days >= 5 THEN 500 ELSE 100 * days
        ELSE 0

\* C6 as amended: the score is a function of (item, profile, evaluation
\* time) that depends on the time only by the cooldown bonus: evaluations of
\* an item with no Interaction agree at all moments, those of an item with an
\* Interaction differ by the difference of their cooldown bonuses.
ScoreDependsOnClockByCooldownOnly ==
    \A e1, e2 \in scoreLog :
        e1.item = e2.item =>
            e1.score - CooldownIn(e1) = e2.score - CooldownIn(e2)

\* an item with an Interaction was scored at two moments, once after the cap
ScoredAtTwoMoments ==
    \E e1, e2 \in scoreLog :
        /\ e1.item = e2.item
        /\ e1.at < e2.at
        /\ e1.item \in DOMAIN userProfile.interactions
        /\ e2.at - userProfile.interactions[e1.item].viewedAt > 5

----------------------------------------------------------------------------
(* Further properties of the weight model, the merge and the session *)

\* C18: an event on an item whose Interaction does not record wasSkipped
\* changes the addressed topic, subtopic and branch weights by exactly the
\* normal delta of its outcome, clamped to [0.1, 1.0], a missing node
\* counting as 0.5 before the event.
NormalDeltaApplied ==
    \A a \in lastApplied : \A nl \in Addressed(a) :
        a.previous # "Skipped" =>
            userProfile.topics[nl[1]] =
                InInterval(a.before[nl[2]] + NormalTable(a.outcome)[nl[2]])

\* C19: an answer on an item whose Interaction records wasSkipped changes
\* the addressed weights by the compensation delta of its outcome, so a topic
\* at 0.45 after the skip is at 0.50 after a Correct answer.
CompensationDeltaApplied ==
    \A a \in lastApplied : \A nl \in Addressed(a) :
        (a.previous = "Skipped" /\ a.outcome # "Skipped") =>
            userProfile.topics[nl[1]] =
                InInterval(a.before[nl[2]] + CompensationTable(a.outcome)[nl[2]])

\* C20: no step leaves the local profile with a smaller totalAnswered.
TotalAnsweredNeverDecreases ==
    [][userProfile'.totalAnswered >= userProfile.totalAnswered]_vars

\* C12: the merged weights have a node for every node of either side; a node
\* of both sides has the larger of the two weights, a node of one side has
\* the weight of that side.
MergedWeightsAreMax ==
    \A m \in mergeIn, r \in merged :
        /\ DOMAIN r.ab.topics = DOMAIN m.a.topics \cup DOMAIN m.b.topics
        /\ \A n \in DOMAIN r.ab.topics :
              /\ n \in DOMAIN m.a.topics => r.ab.topics[n] >= m.a.topics[n]
              /\ n \in DOMAIN m.b.topics => r.ab.topics[n] >= m.b.topics[n]
              /\ \/ n \in DOMAIN m.a.topics /\ r.ab.topics[n] = m.a.topics[n]
                 \/ n \in DOMAIN m.b.topics /\ r.ab.topics[n] = m.b.topics[n]

\* two profiles were merged that share a node with different weights, the
\* local one being the lighter, and one of which has a node the other lacks
MergedSharedAndOneSided ==
    \E m \in mergeIn, r \in merged :
        /\ \E n \in DOMAIN m.a.topics \cap DOMAIN m.b.topics :
              m.a.topics[n] < m.b.topics[n] /\ r.ab.topics[n] = m.b.topics[n]
        /\ \E n \in DOMAIN m.b.topics \ DOMAIN m.a.topics :
              r.ab.topics[n] = m.b.topics[n]

\* C13: the merged interactions are the union of both sides by item id, and
\* for an item of both sides the record with the later viewedAt is kept,
\* whichever side it is from.
MergedInteractionLatest ==
    \A m \in mergeIn, r \in merged :
        /\ DOMAIN r.ab.interactions =
              DOMAIN m.a.interactions \cup DOMAIN m.b.interactions
        /\ \A q \in DOMAIN m.a.interactions \cap DOMAIN m.b.interactions :
              /\ m.a.interactions[q].viewedAt > m.b.interactions[q].viewedAt
                    => r.ab.interactions[q] = m.a.interactions[q]
              /\ m.b.interactions[q].viewedAt > m.a.interactions[q].viewedAt
                    => r.ab.interactions[q] = m.b.interactions[q]

----------------------------------------------------------------------------
(* Pushes of the profile after the initial load, and the conflict resolver *)

\* the one retry the resolver makes after a conflict
RetryLimit == 1

TriggerKinds == {"interval", "background", "logout", "teardown"}

\* the rows another device writes for the user
OtherRows == {RemoteProfile("sci90", 3), MixedProfile}

\* a bug: the lock keyed by the user id is never seen as held
LockNeverHeld == FALSE

\* the lock keyed by the user id is held while a push is in flight
LockHeld == push.pc # "idle"

\* the conditional upsert of the store: a write that carries a version is
\* accepted when that version is the next one of the row
StoreAccepts(version) == version = remoteVersion + 1

\* a bug: the retry carries the version that was read
RetryVersionSame(latestVersion) == latestVersion

\* version: latestData.version + 1
RetryVersion(latestVersion) == latestVersion + 1

\* a bug: the resolver never gives up
ExhaustedNever(attempts) == FALSE

\* the resolver has made its retries
Exhausted(attempts) == attempts >= RetryLimit

\* a sync trigger: the interval runs the background sync, which carries
\* currentVersion + 1; the other triggers dispatch forceSyncProfile, whose
\* write-only upsert carries no version. A trigger that finds the lock held
\* starts nothing. The cleanup of the coordinator calls finalSync without
\* awaiting it: it has returned as soon as the push is dispatched.
Trigger(kind) ==
    /\ user # NoUser
    /\ ~released
    /\ triggers < MaxTriggers
    /\ released' = (kind = "teardown")
    /\ UNCHANGED <<feed, appended, selected>>
    /\ triggers' = triggers + 1
    /\ IF LockHeld
        THEN /\ coalesced' = coalesced + 1
             /\ UNCHANGED <<push, inFlight, pushCount, reported>>
        ELSE /\ push' = [pc |-> "upserting",
                         kind |-> IF kind = "interval" THEN "versioned"
                                                       ELSE "blind",
                         payload |-> {userProfile},
                         version |-> currentVersion + 1,
                         latest |-> 0,
                         attempts |-> 0,
                         result |-> push.result]
             /\ inFlight' = inFlight + 1
             /\ pushCount' = pushCount + 1
             /\ reported' = FALSE
             /\ UNCHANGED coalesced
    /\ UNCHANGED <<user, userProfile, initialDataLoaded, writeOnly,
                   resetRequested, appStateRef, remote, loads, checking,
                   loadEffect, checkEffect, fetchCount, readCount, events,
                   lastApplied, lastOutcome, now, scoreLog, mergeIn, merged,
                   remoteVersion, currentVersion, otherWrites>>

\* the store takes the upsert: the write-only one always, the versioned one
\* when its version is the next
UpsertAccepted ==
    /\ push.pc = "upserting"
    /\ push.kind = "versioned" => StoreAccepts(push.version)
    /\ remote' = push.payload
    /\ IF push.kind = "versioned"
        THEN remoteVersion' = push.version /\ currentVersion' = push.version
        ELSE UNCHANGED <<remoteVersion, currentVersion>>
    /\ push' = IdlePush("accepted")
    /\ inFlight' = inFlight - 1
    /\ UNCHANGED <<user, userProfile, initialDataLoaded, writeOnly,
                   resetRequested, appStateRef, loads, checking, loadEffect,
                   checkEffect, fetchCount, readCount, pushCount, events,
                   lastApplied, lastOutcome, now, scoreLog, mergeIn, merged,
                   triggers, coalesced, reported, otherWrites>>
    /\ UNCHANGED <<released, feed, appended, selected>>

\* the store rejects the versioned upsert: error.code === 'P2002'
UpsertConflict ==
    /\ push.pc = "upserting"
    /\ push.kind = "versioned"
    /\ ~StoreAccepts(push.version)
    /\ push' = [push EXCEPT !.pc = "conflict"]
    /\ UNCHANGED <<inFlight, user, userProfile, initialDataLoaded, writeOnly,
                   resetRequested, appStateRef, remote, loads, checking,
                   loadEffect, checkEffect, fetchCount, readCount, pushCount,
                   events, lastApplied, lastOutcome, now, scoreLog, mergeIn,
                   merged, remoteVersion, currentVersion, triggers, coalesced,
                   reported, otherWrites>>
    /\ UNCHANGED <<released, feed, appended, selected>>

\* the upsert or the retry fails for another reason (the network): nothing
\* is written, the next trigger pushes again
UpsertFailed ==
    /\ push.pc \in {"upserting", "retrying"}
    /\ push' = IdlePush("failed")
    /\ inFlight' = inFlight - 1
    /\ UNCHANGED <<user, userProfile, initialDataLoaded, writeOnly,
                   resetRequested, appStateRef, remote, loads, checking,
                   loadEffect, checkEffect, fetchCount, readCount, pushCount,
                   events, lastApplied, lastOutcome, now, scoreLog, mergeIn,
                   merged, remoteVersion, currentVersion, triggers, coalesced,
                   reported, otherWrites>>
    /\ UNCHANGED <<released, feed, appended, selected>>

\* the resolver fetches the latest row, merges the pushed profile with it
\* and prepares the retry with the version after the one it read
ResolverFetch ==
    /\ push.pc = "conflict"
    /\ remote # {}
    /\ push' = [push EXCEPT
                  !.pc = "retrying",
                  !.payload = {MergeProfiles(p, r, now) :
                                  p \in push.payload, r \in remote},
                  !.version = RetryVersion(remoteVersion),
                  !.latest = remoteVersion,
                  !.attempts = push.attempts + 1]
    /\ readCount' = readCount + 1
    /\ UNCHANGED <<user, userProfile, initialDataLoaded, writeOnly,
                   resetRequested, appStateRef, remote, loads, checking,
                   loadEffect, checkEffect, fetchCount, pushCount, events,
                   lastApplied, lastOutcome, now, scoreLog, mergeIn, merged,
                   remoteVersion, currentVersion, inFlight, triggers,
                   coalesced, reported, otherWrites>>
    /\ UNCHANGED <<released, feed, appended, selected>>

\* the store takes the retry: the merged profile is the row
RetryAccepted ==
    /\ push.pc = "retrying"
    /\ StoreAccepts(push.version)
    /\ remote' = push.payload
    /\ remoteVersion' = push.version
    /\ currentVersion' = push.version
    /\ push' = IdlePush("merged")
    /\ inFlight' = inFlight - 1
    /\ UNCHANGED <<user, userProfile, initialDataLoaded, writeOnly,
                   resetRequested, appStateRef, loads, checking, loadEffect,
                   checkEffect, fetchCount, readCount, pushCount, events,
                   lastApplied, lastOutcome, now, scoreLog, mergeIn, merged,
                   triggers, coalesced, reported, otherWrites>>
    /\ UNCHANGED <<released, feed, appended, selected>>

\* the store rejects the retry: after the last retry the conflict is
\* reported to the caller and the push ends; the local profile stays
RetryRejected ==
    /\ push.pc = "retrying"
    /\ ~StoreAccepts(push.version)
    /\ IF Exhausted(push.attempts)
        THEN /\ push' = IdlePush("exhausted")
             /\ inFlight' = inFlight - 1
             /\ reported' = TRUE
        ELSE /\ push' = [push EXCEPT !.pc = "conflict"]
             /\ UNCHANGED <<inFlight, reported>>
    /\ UNCHANGED <<user, userProfile, initialDataLoaded, writeOnly,
                   resetRequested, appStateRef, remote, loads, checking,
                   loadEffect, checkEffect, fetchCount, readCount, pushCount,
                   events, lastApplied, lastOutcome, now, scoreLog, mergeIn,
                   merged, remoteVersion, currentVersion, triggers, coalesced,
                   otherWrites>>
    /\ UNCHANGED <<released, feed, appended, selected>>

\* another device of the user writes a row; the store accepts it and
\* advances the version
OtherWriter(row) ==
    /\ otherWrites < MaxOtherWrites
    /\ remote' = {row}
    /\ remoteVersion' = remoteVersion + 1
    /\ otherWrites' = otherWrites + 1
    /\ UNCHANGED <<user, userProfile, initialDataLoaded, writeOnly,
                   resetRequested, appStateRef, loads, checking, loadEffect,
                   checkEffect, fetchCount, readCount, pushCount, events,
                   lastApplied, lastOutcome, now, scoreLog, mergeIn, merged,
                   currentVersion, push, inFlight, triggers, coalesced,
                   reported>>
    /\ UNCHANGED <<released, feed, appended, selected>>

\* an answer or a skip of the user while pushes go on
PushEvent(q, outcome) ==
    /\ ~released
    /\ events < MaxPushEvents
    /\ ApplyOutcome(q, outcome, 8000)

\* a session after its initial load: the device holds the profile and the
\* version of the row it last wrote or read
InitPush ==
    /\ user \in Users
    /\ userProfile \in {WarmProfile(11), ColdProfile}
    /\ initialDataLoaded = TRUE
    /\ writeOnly = TRUE
    /\ resetRequested = FALSE
    /\ appStateRef = "active"
    /\ remote = {RemoteProfile("sci60", 1)}
    /\ loads = [i \in LoadSlots |-> IdleLoad]
    /\ checking = 0
    /\ loadEffect = FALSE
    /\ checkEffect = FALSE
    /\ fetchCount = 0
    /\ readCount = 0
    /\ pushCount = 0
    /\ events = 0
    /\ lastApplied = {}
    /\ lastOutcome = RecordedOutcomes(userProfile)
    /\ now \in {0, DayStep}
    /\ scoreLog = {}
    /\ mergeIn = {}
    /\ merged = {}
    /\ remoteVersion \in {1, 2}
    /\ currentVersion = remoteVersion
    /\ push = IdlePush("none")
    /\ inFlight = 0
    /\ triggers = 0
    /\ coalesced = 0
    /\ reported = FALSE
    /\ otherWrites = 0
    /\ released = FALSE
    /\ feed = <<>>
    /\ appended = 0
    /\ selected = <<>>

NextPush ==
    \/ \E k \in TriggerKinds : Trigger(k)
    \/ UpsertAccepted
    \/ UpsertConflict
    \/ UpsertFailed
    \/ ResolverFetch
    \/ RetryAccepted
    \/ RetryRejected
    \/ \E row \in OtherRows : OtherWriter(row)
    \/ \E q \in SessionItems, o \in Outcomes : PushEvent(q, o)

SpecPush == InitPush /\ [][NextPush]_vars

----------------------------------------------------------------------------
(* Properties of the pushes and of the conflict resolver *)

ConflictRetriedWithNextVersion ==
    [][/\ (push.pc = "conflict" /\ push'.pc = "retrying") =>
             /\ push'.latest = remoteVersion
             /\ push'.version = remoteVersion + 1
             /\ push'.payload = {MergeProfiles(p, r, now) :
                                    p \in push.payload, r \in remote}
       /\ (/\ push.pc = "retrying"
           /\ push'.pc = "idle"
           /\ push'.result # "failed"
           /\ remoteVersion = push.latest) =>
             /\ push'.result = "merged"
             /\ remote' = push.payload
             /\ remoteVersion' = push.latest + 1]_vars

\* the single push of a device that knew version 2 met a row at version 4
\* and its retry was accepted at version 5
RetriedAtFive ==
    /\ triggers = 1
    /\ otherWrites = 2
    /\ push.result = "merged"
    /\ currentVersion = 5
    /\ remoteVersion = 5

StalePushNeverOverwrites ==
    [][(/\ push.pc \in {"upserting", "retrying"}
        /\ push.version # remoteVersion + 1
        /\ push' # push) =>
            /\ remote' = remote
            /\ remoteVersion' = remoteVersion]_vars

\* the local profile is the same before and after the step
LocalProfileKept ==
    /\ userProfile'.topics = userProfile.topics
    /\ userProfile'.interactions = userProfile.interactions
    /\ userProfile'.totalAnswered = userProfile.totalAnswered
    /\ userProfile'.coldStartComplete = userProfile.coldStartComplete

----------------------------------------------------------------------------
(* Further properties of the session and of the score *)

ScoreWithoutAccuracy(e) ==
    LET path == ItemPath(e.item)
        affinity == WeightOf(userProfile.topics, NodeAt(path, 1))
                      + WeightOf(userProfile.topics, NodeAt(path, 2))
                      + WeightOf(userProfile.topics, NodeAt(path, 3))
    IN  IF e.item \notin DOMAIN userProfile.interactions
            THEN affinity + 150
            ELSE LET x == userProfile.interactions[e.item]
                 IN  affinity
                       + (IF x.timeSpent < 3000 THEN 150
                          ELSE IF x.timeSpent > 15000 THEN 0 - 150 ELSE 0)
                       + (IF x.wasSkipped THEN 0 - 200 ELSE 0)
                       + CooldownIn(e)

\* C25: the score is 0.30 times the mean of the three weights (0.5 for an
\* unseen node), plus 0.15 for an item with no Interaction, and for an item
\* with an Interaction plus the accuracy, time, skip and cooldown components:
\* the accuracy component is +0.25 for wasCorrect true and -0.25 for false.
ScoreIsSumOfComponents ==
    \A e \in scoreLog :
        IF e.item \notin DOMAIN userProfile.interactions
            THEN e.score = ScoreWithoutAccuracy(e)
            ELSE LET accuracy == e.score - ScoreWithoutAccuracy(e)
                     x == userProfile.interactions[e.item]
                 IN  /\ accuracy \in {250, 0, 0 - 250}
                     /\ x.wasCorrect = "true" => accuracy = 250
                     /\ x.wasCorrect = "false" => accuracy = 0 - 250

\* an item of an unseen topic with no Interaction and an item answered fast
\* some days ago were both scored
ScoredNovelAndAnswered ==
    \E e1, e2 \in scoreLog :
        /\ e1.item \notin DOMAIN userProfile.interactions
        /\ NodeAt(ItemPath(e1.item), 1) \notin DOMAIN userProfile.topics
        /\ e2.item \in DOMAIN userProfile.interactions
        /\ userProfile.interactions[e2.item].timeSpent < 3000
        /\ userProfile.interactions[e2.item].wasCorrect = "true"
        /\ e2.at > userProfile.interactions[e2.item].viewedAt

\* C26: when the initial load completes on the keep-local branch, the
\* profile it stores and the row it has written are the local profile of
\* that moment, events applied during the load included.
KeepLocalKeepsEvents ==
    [][\A i \in LoadSlots :
          (loads[i].pc = "syncing" /\ Completes(i)) =>
              /\ userProfile' = userProfile
              /\ remote' = {userProfile}]_vars

\* C27: an initial load whose fetch fails issues no push, and the row is
\* not replaced by the profile of a load whose fetch failed.
FailedFetchNoPush ==
    [][\A i \in LoadSlots :
          /\ (remote # {} /\ LoadKeepLocal(i, "failed")) =>
                pushCount' = pushCount
          /\ (remote # {} /\ loads[i].pc = "syncing" /\ loads[i].fetched = {}) =>
                (loads'[i].pc = "done" => remote' = remote)]_vars

\* C29: no step leaves the local profile with a smaller lastRefreshed.
LastRefreshedNeverDecreases ==
    [][userProfile'.lastRefreshed >= userProfile.lastRefreshed]_vars

\* C23: the cleanup returns (the resources of the coordinator are released)
\* only when no push is in flight any more.
ReleasedAfterFinalPush ==
    [][(released' /\ ~released) => push'.pc = "idle"]_vars

----------------------------------------------------------------------------
(* Two users in turn on one coordinator instance *)

MaxUserEvents == 1

\* the user of useAuth() goes away: the effects that depend on it run again,
\* and the cleanup of the final-sync effect, which closes over the user that
\* leaves, dispatches forceSyncProfile for that user. Nothing cancels the
\* invocations of loadInitialData that are under way, and initialDataLoaded
\* keeps its value.
Logout ==
    /\ user # NoUser
    /\ pushCount < MaxPushes
    /\ user' = NoUser
    /\ loadEffect' = TRUE
    /\ checkEffect' = TRUE
    /\ pushCount' = pushCount + 1
    /\ remote' = Upserted(user, userProfile)
    /\ UNCHANGED <<userProfile, initialDataLoaded, writeOnly, resetRequested,
                   appStateRef, loads, checking, fetchCount, readCount, events,
                   lastApplied, lastOutcome, now, scoreLog, mergeIn, pushVars,
                   merged>>

\* an answer or a skip of the user who is logged in
UserEvent(q, outcome) ==
    /\ user # NoUser
    /\ events < MaxUserEvents
    /\ ApplyOutcome(q, outcome, 8000)

InitUsers ==
    /\ user = NoUser
    /\ userProfile = WarmProfile(11)
    /\ initialDataLoaded = FALSE
    /\ writeOnly = FALSE
    /\ resetRequested = TRUE
    /\ appStateRef = "active"
    /\ remote \in {{}, {RemoteProfile("sci60", 3)}}
    /\ loads = [i \in LoadSlots |-> IdleLoad]
    /\ checking = 0
    /\ loadEffect = FALSE
    /\ checkEffect = FALSE
    /\ fetchCount = 0
    /\ readCount = 0
    /\ pushCount = 0
    /\ events = 0
    /\ lastApplied = {}
    /\ lastOutcome = RecordedOutcomes(userProfile)
    /\ now = 0
    /\ scoreLog = {}
    /\ mergeIn = {}
    /\ merged = {}
    /\ NoPushes

NextUsers ==
    \/ \E u \in AllUsers : Login(u)
    \/ Logout
    \/ \E q \in SessionItems, o \in Outcomes : UserEvent(q, o)
    \/ LoadInitialDataSkip
    \/ \E i \in LoadSlots : LoadInitialDataStart(i)
    \/ \E i \in LoadSlots, res \in FetchResults : LoadAdoptRemote(i, res)
    \/ \E i \in LoadSlots, res \in FetchResults : LoadKeepLocal(i, res)
    \/ \E i \in LoadSlots : LoadSynced(i)
    \/ \E i \in LoadSlots : LoadSyncFailed(i)
    \/ CheckEffectSkip
    \/ CheckDefaultWeightsMark
    \/ \E s \in AppStates : HandleAppStateChange(s)

SpecUsers == InitUsers /\ [][NextUsers]_vars

\* C24: while a user is logged in, no push of an invocation started for
\* another user id is in flight.
NoTaskOfPreviousUser ==
    \A i \in LoadSlots :
        (user # NoUser /\ loads[i].pc = "syncing") => loads[i].uid = user

\* C28: once the load effect has run for the user who is logged in, a push
\* of the app-state handler for that user comes after an initial load was
\* started for that user id.
InitialLoadPerUser ==
    [][\A s \in AppStates :
          (/\ HandleAppStateChange(s)
           /\ pushCount' > pushCount
           /\ ~loadEffect) =>
              \E i \in LoadSlots : loads[i].pc # "idle" /\ loads[i].uid = user]_vars

----------------------------------------------------------------------------
(* The feed: construction, checkpoints and topic diversity *)

MaxFeedEvents == 1
MaxCheckpoints == 2
MaxBatch == 2
InitialFeedLen == 5

\* the questions the feed is built from
FeedData == {"q1", "q2", "q3", "q4", "q5", "q6", "q7"}

Difficulty(q) ==
    CASE q \in {"q1", "q3", "q7"} -> "easy"
      [] q \in {"q2", "q5"} -> "medium"
      [] OTHER -> "hard"

\* item.topic
TopicOf(q) == ItemPath(q)[1]

\* only easy and medium questions
IsAppropriateDifficulty(q) == Difficulty(q) \in {"easy", "medium"}

\* userProfile.topics[item.topic]?.weight < limit: false for an unseen topic
IsLowWeight(profile, q, limit) ==
    /\ <<TopicOf(q)>> \in DOMAIN profile.topics
    /\ profile.topics[<<TopicOf(q)>>] < limit

\* the filter of addQuestionsAtCheckpoint: the phase is looked up only while
\* coldStartComplete is false, and no branch returns for 20 answers or more
CheckpointFilter(profile, existingIds, q) ==
    IF ~profile.coldStartComplete
        THEN IF profile.totalAnswered < 5
                 THEN q \notin existingIds /\ IsAppropriateDifficulty(q)
             ELSE IF profile.totalAnswered < 12
                 THEN /\ q \notin existingIds
                      /\ ~IsLowWeight(profile, q, 20)
                      /\ IsAppropriateDifficulty(q)
             ELSE IF profile.totalAnswered < ColdStartThreshold
                 THEN q \notin existingIds /\ ~IsLowWeight(profile, q, 30)
             ELSE FALSE
        ELSE q \notin existingIds /\ ~IsLowWeight(profile, q, 20)

\* the eligibility filter of the phase of the profile
Eligible(profile, q) ==
    CASE Phase(profile.totalAnswered) = 1 -> IsAppropriateDifficulty(q)
      [] Phase(profile.totalAnswered) = 2 -> ~IsLowWeight(profile, q, 20)
      [] Phase(profile.totalAnswered) = 3 -> ~IsLowWeight(profile, q, 30)
      [] OTHER -> ~IsLowWeight(profile, q, 20)

Range(seq) == {seq[i] : i \in 1..Len(seq)}

\* a bug: the topic of the last two items is not looked at
DiversityIgnored(seq, q) == TRUE

\* q may come next: it is not the third item in a row of its topic
DiversityAllows(seq, q) ==
    ~(/\ Len(seq) >= 2
      /\ TopicOf(seq[Len(seq)]) = TopicOf(q)
      /\ TopicOf(seq[Len(seq) - 1]) = TopicOf(q))

\* a profile whose Science weights went down with skips
SkippedProfile(w, total) ==
    MkProfile(TopicsAt(ItemPath("q1"), <<w, 10, 10>>),
              [q \in {"q1", "q2"} |-> Interaction("null", TRUE, 8000, 0)],
              2, total)

\* the profile a device adopts from the row the conflict resolver wrote for
\* a device with 20 answers: the merged upsert carries the larger count and
\* leaves cold_start_complete as it was in the row
MergedRowProfile == MergeProfiles(WarmProfile(20), RemoteProfile("sci60", 3), 4)

FeedProfiles ==
    {FreshProfile, MergedRowProfile}
        \cup {WarmProfile(t) : t \in PersistedTotals}
        \cup {SkippedProfile(w, t) : w \in {15, 25}, t \in PersistedTotals}

\* the candidates in every order of rank: the builder fills the initial
\* feed as far as there are eligible questions
Selections(candidates) ==
    LET n == Min(InitialFeedLen, Cardinality(candidates))
    IN  {sel \in [1..n -> candidates] :
            \A i, j \in 1..n : i # j => sel[i] # sel[j]}

\* a bug: the candidates that had to wait are forgotten
RemainingDropsWaiting(pending, i) == SubSeq(pending, i + 1, Len(pending))

\* the candidates still to place after the i-th was placed: those that had
\* to wait keep their rank
Remaining(pending, i) ==
    SubSeq(pending, 1, i - 1) \o SubSeq(pending, i + 1, Len(pending))

\* the candidates are placed behind seq in the order of their rank; one that
\* would be the third in a row of its topic waits until another was placed
RECURSIVE Arrange(_, _)
Arrange(seq, pending) ==
    LET allowed == {i \in 1..Len(pending) : DiversityAllows(seq, pending[i])}
    IN  IF allowed = {}
            THEN seq
            ELSE LET i == CHOOSE k \in allowed : \A j \in allowed : k <= j
                 IN  Arrange(Append(seq, pending[i]), Remaining(pending, i))

\* the feed builder selects the eligible questions of the initial feed and
\* arranges them
BuildFeed ==
    /\ feed = <<>>
    /\ appended = 0
    /\ \E sel \in Selections({q \in FeedData : Eligible(userProfile, q)}) :
          /\ Len(sel) > 0
          /\ selected' = sel
          /\ feed' = Arrange(<<>>, sel)
    /\ UNCHANGED <<user, userProfile, initialDataLoaded, writeOnly,
                   resetRequested, appStateRef, remote, loads, checking,
                   loadEffect, checkEffect, fetchCount, readCount, pushCount,
                   events, lastApplied, lastOutcome, now, scoreLog, mergeIn,
                   merged, remoteVersion, currentVersion, push, inFlight,
                   triggers, coalesced, reported, otherWrites, released,
                   appended>>

\* the batches of at most MaxBatch questions out of a set
Batches(candidates) ==
    {<<>>} \cup {<<a>> : a \in candidates}
           \cup {<<p[1], p[2]>> : p \in {x \in candidates \X candidates : x[1] # x[2]}}

\* a bug: the ids of the feed are not looked at
CheckpointFilterAnyId(profile, existingIds, q) ==
    CheckpointFilter(profile, {}, q)

\* the filter of a checkpoint invocation
AvailableQuestion(profile, existingIds, q) ==
    CheckpointFilter(profile, existingIds, q)

\* addQuestionsAtCheckpoint: the item at index 4 is on screen; questions that
\* pass the filter are arranged behind the feed
AddQuestionsAtCheckpoint(batch) ==
    /\ Len(feed) > 4
    /\ appended < MaxCheckpoints
    /\ Len(batch) <= MaxBatch
    /\ \A i \in 1..Len(batch) : AvailableQuestion(userProfile, Range(feed), batch[i])
    /\ selected' = batch
    /\ feed' = Arrange(feed, batch)
    /\ appended' = appended + 1
    /\ UNCHANGED <<user, userProfile, initialDataLoaded, writeOnly,
                   resetRequested, appStateRef, remote, loads, checking,
                   loadEffect, checkEffect, fetchCount, readCount, pushCount,
                   events, lastApplied, lastOutcome, now, scoreLog, mergeIn,
                   merged, remoteVersion, currentVersion, push, inFlight,
                   triggers, coalesced, reported, otherWrites, released>>

\* the user answers or skips a question of the feed
FeedEvent(q, outcome) ==
    /\ events < MaxFeedEvents
    /\ q \in Range(feed)
    /\ ApplyOutcome(q, outcome, 8000)

InitFeed ==
    /\ user = NoUser
    /\ userProfile \in FeedProfiles
    /\ initialDataLoaded = FALSE
    /\ writeOnly = FALSE
    /\ resetRequested = TRUE
    /\ appStateRef = "active"
    /\ remote = {}
    /\ loads = [i \in LoadSlots |-> IdleLoad]
    /\ checking = 0
    /\ loadEffect = FALSE
    /\ checkEffect = FALSE
    /\ fetchCount = 0
    /\ readCount = 0
    /\ pushCount = 0
    /\ events = 0
    /\ lastApplied = {}
    /\ lastOutcome = RecordedOutcomes(userProfile)
    /\ now = 0
    /\ scoreLog = {}
    /\ mergeIn = {}
    /\ merged = {}
    /\ NoPushes

NextFeed ==
    \/ BuildFeed
    \/ \E batch \in Batches(FeedData) : AddQuestionsAtCheckpoint(batch)
    \/ \E q \in SessionItems, o \in Outcomes : FeedEvent(q, o)

SpecFeed == InitFeed /\ [][NextFeed]_vars

CheckpointFilterOfPhase ==
    LET candidates == FeedData \ Range(feed)
    IN  Len(feed) > 4 =>
          /\ \A q \in candidates :
                CheckpointFilter(userProfile, Range(feed), q)
                    <=> Eligible(userProfile, q)
          /\ (/\ userProfile.totalAnswered >= ColdStartThreshold
              /\ \E q \in candidates : ~IsLowWeight(userProfile, q, 20)) =>
                \E q \in candidates : CheckpointFilter(userProfile, Range(feed), q)

----------------------------------------------------------------------------
(* Further properties of the outcome events, the score and the handler *)

\* C31: every event starts from the weights the previous event left: the
\* weight its delta is added to is the stored weight of the node (0.5 for a
\* node that does not exist yet), never a weight put back to the default.
EventsStartFromStoredWeights ==
    \A a \in lastApplied : \A l \in Levels : a.base[l] = a.before[l]

\* the accuracy component of the score of an evaluation
AccuracyIn(e) == e.score - ScoreWithoutAccuracy(e)

\* C32: the accuracy component of the score is 0 for an item whose
\* Interaction has wasCorrect null, +0.25 for true and -0.25 for false.
AccuracyZeroWhenNotAnswered ==
    \A e \in scoreLog :
        e.item \in DOMAIN userProfile.interactions =>
            AccuracyIn(e) =
                CASE userProfile.interactions[e.item].wasCorrect = "true" -> 250
                  [] userProfile.interactions[e.item].wasCorrect = "false" -> 0 - 250
                  [] OTHER -> 0

\* C35: an answer adds exactly 1 to totalAnswered and a skip leaves it; the
\* item of the event has one Interaction, which records this event.
TotalCountsAnswers ==
    \A a \in lastApplied :
        /\ userProfile.totalAnswered =
              a.totalBefore + (IF a.outcome = "Skipped" THEN 0 ELSE 1)
        /\ a.item \in DOMAIN userProfile.interactions
        /\ userProfile.interactions[a.item].wasSkipped = (a.outcome = "Skipped")
        /\ userProfile.interactions[a.item].wasCorrect =
              (CASE a.outcome = "Correct" -> "true"
                 [] a.outcome = "Incorrect" -> "false"
                 [] OTHER -> "null")

\* an item was skipped after it had been answered, and an item was answered
\* after it had been skipped
SkipAfterAnswerAndAnswerAfterSkip ==
    /\ events >= 3
    /\ \E a \in lastApplied :
          /\ a.outcome = "Skipped"
          /\ a.previous \in {"Correct", "Incorrect"}
          /\ a.earlier = "Skipped"
          /\ userProfile.totalAnswered = a.totalBefore

\* the handler of the app state ran in this step
HandlerRan == appStateRef' # appStateRef

\* C36: the app-state handler requests a push of the current profile exactly
\* when the app leaves the active state for background or inactive with a
\* user logged in; the remembered state is the state reported; no other
\* step changes the remembered state.
PushOnLeavingActive ==
    [][/\ HandlerRan =>
            /\ HandleAppStateChange(appStateRef')
            /\ IF /\ user # NoUser
                  /\ appStateRef = "active"
                  /\ appStateRef' \in {"background", "inactive"}
                THEN pushCount' = pushCount + 1 /\ remote' = {userProfile}
                ELSE pushCount' = pushCount /\ remote' = remote
       /\ \A s \in AppStates : HandleAppStateChange(s) => appStateRef' = s]_vars

\* the app left the active state with a user, which requested the only push
\* so far, and came back to it
LeftActiveAndCameBack ==
    /\ user # NoUser
    /\ appStateRef = "active"
    /\ pushCount = 1
    /\ \A i \in LoadSlots : loads[i].pushed = 0

\* the weights of the nodes of item q in a profile
PathWeights(p, q) == [l \in Levels |-> WeightOf(p.topics, NodeAt(ItemPath(q), l))]

\* C37: Skipped followed by Correct on the same item leaves the topic, the
\* subtopic and the branch weight as they were before the skip, when the
\* skip did not clamp at the floor, and adds exactly 1 to totalAnswered.
SkipThenCorrectIsNeutral ==
    [][\A a \in lastApplied, b \in lastApplied' :
          (/\ events' = events + 1
           /\ a.item = b.item
           /\ a.outcome = "Skipped"
           /\ b.outcome = "Correct") =>
              /\ userProfile'.totalAnswered = a.totalBefore + 1
              /\ (\A l \in Levels : a.before[l] + Delta("Skipped")[l] >= MinWeight)
                    => PathWeights(userProfile', b.item) = a.before]_vars

\* C38: an event changes only the weights of the topic, the subtopic and the
\* branch of its item, the Interaction of its item and totalAnswered: every
\* other weight and Interaction, coldStartComplete while totalAnswered stays
\* below 20, lastRefreshed and the versions are as before.
EventChangesOnlyItsNodes ==
    [][events' # events =>
          \A a \in lastApplied' :
              LET nodes == {NodeAt(ItemPath(a.item), l) : l \in Levels}
              IN  /\ DOMAIN userProfile'.topics = DOMAIN userProfile.topics \cup nodes
                  /\ \A n \in DOMAIN userProfile.topics \ nodes :
                        userProfile'.topics[n] = userProfile.topics[n]
                  /\ DOMAIN userProfile'.interactions =
                        DOMAIN userProfile.interactions \cup {a.item}
                  /\ \A x \in DOMAIN userProfile.interactions \ {a.item} :
                        userProfile'.interactions[x] = userProfile.interactions[x]
                  /\ userProfile'.totalAnswered < ColdStartThreshold =>
                        userProfile'.coldStartComplete = userProfile.coldStartComplete
                  /\ userProfile'.lastRefreshed = userProfile.lastRefreshed
                  /\ currentVersion' = currentVersion
                  /\ remoteVersion' = remoteVersion]_vars

\* an event on an item of one topic was applied to a profile that holds
\* weights of another topic, other than the default
EventBesideOtherTopic ==
    \E a \in lastApplied :
        /\ a.item = "q3"
        /\ <<"Science">> \in DOMAIN userProfile.topics
        /\ userProfile.topics[<<"Science">>] # DEFAULT_TOPIC_WEIGHT
        /\ "q1" \in DOMAIN userProfile.interactions
        /\ userProfile.topics[<<"History">>] # DEFAULT_TOPIC_WEIGHT

----------------------------------------------------------------------------
(* Further properties of the feed *)

====
